---------------------------- MODULE Spec2Model ----------------------------
(***************************************************************************)
(* A model of the simulation core of raylib-jump-prince                    *)
(* (src/source/main.cpp): the tile grid and its out-of-bounds policy, the  *)
(* stacked-screen addressing, the box-vs-tilemap overlap test and          *)
(* collision resolver, and the per-frame player update.                    *)
(*                                                                         *)
(* Numbers.  The program computes in 32-bit floats.  The model computes in *)
(* fixed point: a length or a speed is an integer count of 1/ONE tiles     *)
(* (tiles per second), a time an integer count of 1/TICKS seconds.  Every  *)
(* arithmetic expression is evaluated exactly and rounded once, where the  *)
(* exact result is no fixed-point value: a product or quotient to the      *)
(* nearest value (RoundDiv), a vector length upwards (SqrtSearch), a       *)
(* rescaled vector towards zero (TruncDiv).  The relative 2^-24 rounding   *)
(* of the individual float operations is not modelled.                     *)
(***************************************************************************)
EXTENDS Integers, Sequences, FiniteSets, TLC

\* One tile (one world unit) in fixed-point steps.
ONE == 1000
\* One second in time steps (a step is 0.1 ms, the lower clamp of delta).
TICKS == 10000

TILEMAP_SIZE_X == 16
TILEMAP_SIZE_Y == 12
\* 0.45f
BOUNCE_FACTOR_X == (45 * ONE) \div 100
PLAYER_GRAVITY == 30
PLAYER_SPEED == 200
PLAYER_JUMP_STRENGTH == 15

\* enum Tile: the stored bytes.
TILE_EMPTY == 32
TILE_ZERO == 0
TILE_FULL == 35

OUTSIDE_TILE_HORIZONTAL == TILE_FULL
OUTSIDE_TILE_VERTICAL == TILE_EMPTY

\* Half-size of the player's box collider, {0.3f, 0.4f}.
PLAYER_SIZE == <<300, 400>>
\* Half-size of the ground probe of updatePlayer, {0.1, 0.05}.
PROBE_SIZE == <<100, 50>>

-----------------------------------------------------------------------------
(* Arithmetic helpers *)

Abs(a) == IF a < 0 THEN -a ELSE a

Min(a, b) == IF a < b THEN a ELSE b

Max(a, b) == IF a > b THEN a ELSE b

\* raymath Clamp(value, min, max)
Clamp(value, lo, hi) == Min(Max(value, lo), hi)

\* a / b rounded to the nearest integer, halves away from zero (b > 0).
RoundDiv(a, b) ==
    IF a >= 0 THEN (2 * a + b) \div (2 * b)
    ELSE -((2 * (-a) + b) \div (2 * b))

\* floorf of a fixed-point value, as an int number of whole units.
Floor(a) == a \div ONE

-----------------------------------------------------------------------------
(* The level: screenTilemaps[], each Tilemap a TILEMAP_SIZE_Y x            *)
(* (TILEMAP_SIZE_X + 1) array of bytes, rows from the string literals and  *)
(* every byte the initialiser leaves out zero (TILE_ZERO).                 *)

screenTilemaps == <<
    << <<0,0,0,0,0,0,0,0,0,0,0,0,0,0,0,0,0>>,
       <<0,0,0,0,0,0,0,0,0,0,0,0,0,0,0,0,0>>,
       <<0,0,0,0,0,0,0,0,0,0,0,0,0,0,0,0,0>>,
       <<0,0,0,0,0,0,0,0,0,0,0,0,0,0,0,0,0>>,
       <<0,0,0,0,0,0,0,0,0,0,0,0,0,0,0,0,0>>,
       <<0,0,0,0,0,0,0,0,0,0,0,0,0,0,0,0,0>>,
       <<0,0,0,0,0,0,0,0,0,0,0,0,0,0,0,0,0>>,
       <<0,0,0,0,0,0,0,0,0,0,0,0,0,0,0,0,0>>,
       <<0,0,0,0,0,0,0,0,0,0,0,0,0,0,0,0,0>>,
       <<0,0,0,0,0,0,0,0,0,0,0,0,0,0,0,0,0>>,
       <<0,0,0,0,0,0,0,0,0,0,0,0,0,0,0,0,0>>,
       <<0,0,0,0,0,0,0,0,0,0,0,0,0,0,0,0,0>> >>,
    << <<35,35,35,35,35,35,35,35,35,35,35,35,35,35,35,35,0>>,
       <<35,32,32,32,32,32,32,32,32,32,32,32,32,32,32,35,0>>,
       <<35,32,35,35,35,35,32,35,35,35,35,32,35,32,32,35,0>>,
       <<35,32,35,32,32,32,32,35,32,32,32,32,35,32,32,35,0>>,
       <<35,32,35,32,35,35,32,35,32,35,35,32,35,32,32,35,0>>,
       <<35,32,35,32,32,35,32,35,32,32,35,32,32,32,32,35,0>>,
       <<35,32,35,35,35,35,32,35,35,35,35,32,35,32,32,35,0>>,
       <<35,32,32,32,32,32,32,32,32,32,32,32,32,32,32,35,0>>,
       <<35,32,32,32,32,32,32,32,32,32,32,32,32,32,32,35,0>>,
       <<35,32,32,32,32,32,32,32,32,32,32,32,32,32,32,35,0>>,
       <<35,32,32,32,32,32,32,32,32,32,32,32,32,32,32,35,0>>,
       <<35,35,35,35,35,35,35,35,35,32,32,32,32,32,32,35,0>> >>,
    << <<35,35,35,35,35,35,35,35,35,32,32,32,32,32,32,35,0>>,
       <<35,35,35,35,35,35,35,35,35,32,32,32,32,35,35,35,0>>,
       <<35,35,35,35,35,35,35,35,32,32,32,32,32,32,35,35,0>>,
       <<35,35,35,35,35,35,35,35,32,32,32,32,32,32,35,35,0>>,
       <<35,35,35,35,35,35,35,35,35,35,32,32,32,32,32,35,0>>,
       <<35,35,35,35,35,35,35,35,35,35,32,32,32,32,32,35,0>>,
       <<35,35,35,35,35,35,35,35,32,32,32,32,32,32,35,35,0>>,
       <<35,35,35,35,35,35,35,35,32,32,32,32,32,32,35,35,0>>,
       <<35,35,35,35,35,35,35,35,35,35,32,32,32,32,35,35,0>>,
       <<35,35,35,35,35,35,32,32,32,32,32,32,32,32,35,35,0>>,
       <<35,35,35,32,32,32,32,32,32,32,32,32,32,32,35,35,0>>,
       <<35,35,35,32,32,32,32,32,32,32,32,32,35,35,35,35,0>> >>,
    << <<35,35,35,32,32,32,32,32,32,32,32,32,35,35,35,35,0>>,
       <<35,35,35,32,32,32,32,35,35,32,32,32,35,35,35,35,0>>,
       <<35,35,35,32,32,32,32,32,32,32,32,32,35,35,35,35,0>>,
       <<35,35,35,32,32,32,32,32,32,32,32,32,32,35,35,35,0>>,
       <<35,35,35,35,35,32,32,32,32,32,32,32,32,35,35,35,0>>,
       <<35,35,35,32,32,32,32,32,32,32,32,32,32,35,35,35,0>>,
       <<35,32,32,32,32,32,32,32,32,32,32,32,32,35,35,35,0>>,
       <<35,35,32,32,32,32,32,32,32,32,35,35,35,35,35,35,0>>,
       <<35,35,32,32,32,32,32,32,32,32,32,35,35,35,35,35,0>>,
       <<35,35,32,32,32,32,32,32,32,32,32,35,35,35,35,35,0>>,
       <<35,35,35,35,35,35,32,32,32,32,32,35,35,35,35,35,0>>,
       <<35,35,35,35,35,32,32,32,32,32,32,35,35,35,35,35,0>> >>,
    << <<35,35,35,35,35,32,32,32,32,32,32,35,35,35,35,35,0>>,
       <<35,35,35,32,32,32,32,32,32,35,35,35,35,35,35,35,0>>,
       <<35,35,32,32,32,32,32,32,32,32,35,35,35,35,35,35,0>>,
       <<35,35,32,32,32,32,32,32,32,32,32,32,35,35,35,35,0>>,
       <<35,35,35,35,35,35,32,32,32,32,32,32,35,35,35,35,0>>,
       <<35,35,35,35,35,35,32,32,32,32,32,32,32,35,35,35,0>>,
       <<35,35,35,35,35,35,32,32,32,35,32,32,32,35,35,35,0>>,
       <<35,35,35,35,35,32,32,32,32,35,35,32,32,35,35,35,0>>,
       <<35,35,35,35,35,32,32,32,32,32,32,32,32,35,35,35,0>>,
       <<35,35,32,32,32,32,32,32,32,32,32,32,32,35,35,35,0>>,
       <<35,35,32,32,32,32,32,32,32,32,35,35,35,35,35,35,0>>,
       <<35,35,32,32,32,32,35,35,35,35,35,35,35,35,35,35,0>> >>,
    << <<35,35,32,32,32,32,35,35,35,35,35,35,35,35,35,35,0>>,
       <<35,35,32,32,32,32,32,32,32,32,32,32,32,32,35,35,0>>,
       <<35,35,35,35,32,32,32,32,32,32,32,32,32,32,35,35,0>>,
       <<35,35,35,35,35,35,35,35,32,32,32,32,32,32,32,35,0>>,
       <<35,35,35,35,35,32,32,32,32,32,32,32,32,32,32,35,0>>,
       <<35,35,32,32,32,32,32,32,32,32,32,32,32,32,32,35,0>>,
       <<35,35,32,32,32,32,32,32,32,35,35,35,35,35,35,35,0>>,
       <<35,32,32,32,32,32,32,32,32,35,35,35,35,35,35,35,0>>,
       <<35,32,32,32,32,32,32,32,32,32,35,35,35,35,35,35,0>>,
       <<35,35,35,35,35,32,32,32,32,32,35,35,35,35,35,35,0>>,
       <<35,35,35,35,35,32,32,32,32,32,35,35,35,35,35,35,0>>,
       <<35,35,35,35,35,35,35,35,35,35,35,35,35,35,35,35,0>> >>
>>

\* arrayNumItems(screenTilemaps)
NumScreens == Len(screenTilemaps)

\* A `const Tilemap*` is a screen of the level, a test grid given by its
\* set of '#' cells (every other cell of a test grid is ' '), or a test grid
\* filled with one byte.
ScreenTilemap(index) == [kind |-> "screen", index |-> index, solid |-> {}]

GridTilemap(solid) == [kind |-> "grid", index |-> 0, solid |-> solid]

\* A grid every cell of which stores the same byte (a uint8_t).
FillTilemap(byte) == [kind |-> "fill", index |-> byte, solid |-> {}]

\* (*tilemap)[y][x], for 0 <= y < TILEMAP_SIZE_Y and 0 <= x <= TILEMAP_SIZE_X
TilemapByte(tilemap, y, x) ==
    IF tilemap.kind = "screen"
    THEN screenTilemaps[tilemap.index + 1][y + 1][x + 1]
    ELSE IF tilemap.kind = "fill" THEN tilemap.index
    ELSE IF <<x, y>> \in tilemap.solid THEN TILE_FULL ELSE TILE_EMPTY

-----------------------------------------------------------------------------
(* TileGrid *)

\* A plausible slip: the vertical test made first (the order of part_000).
tilemapGetTile_VerticalFirst(tilemap, x, y) ==
    IF y < 0 \/ y >= TILEMAP_SIZE_Y THEN OUTSIDE_TILE_VERTICAL
    ELSE IF x < 0 \/ x >= TILEMAP_SIZE_X THEN OUTSIDE_TILE_HORIZONTAL
    ELSE TilemapByte(tilemap, y, x)

tilemapGetTile(tilemap, x, y) ==
    IF x < 0 \/ x >= TILEMAP_SIZE_X THEN OUTSIDE_TILE_HORIZONTAL
    ELSE IF y < 0 \/ y >= TILEMAP_SIZE_Y THEN OUTSIDE_TILE_VERTICAL
    ELSE TilemapByte(tilemap, y, x)

\* A plausible slip: only the '#' byte counts as full.
tilemapIsTileFull_HashOnly(tilemap, x, y) ==
    tilemapGetTile(tilemap, x, y) = TILE_FULL

\* A plausible slip: only the zero byte counts as empty.
tilemapIsTileFull_ZeroOnly(tilemap, x, y) ==
    tilemapGetTile(tilemap, x, y) # TILE_ZERO

tilemapIsTileFull(tilemap, x, y) ==
    LET tile == tilemapGetTile(tilemap, x, y)
    IN  IF tile = TILE_EMPTY \/ tile = TILE_ZERO THEN FALSE ELSE TRUE

-----------------------------------------------------------------------------
(* Level addressing *)

\* A plausible slip: the float-to-int conversion without floorf (truncation).
getScreenHeightIndex_Truncating(height) ==
    IF -height >= 0 THEN (-height) \div (TILEMAP_SIZE_Y * ONE)
    ELSE -(height \div (TILEMAP_SIZE_Y * ONE))

\* floorf(-height / TILEMAP_SIZE_Y)
getScreenHeightIndex(height) == (-height) \div (TILEMAP_SIZE_Y * ONE)

\* main: screenIndex after the range test (line 420-421).  The test
\* `screenIndex > arrayNumItems` lets screenIndex = arrayNumItems through.
\* A plausible slip: the screens counted upwards from the start of the array.
ScreenIndexOf_Ascending(height) ==
    LET screenIndex == getScreenHeightIndex(height) + 2
    IN  IF screenIndex < 0 \/ screenIndex > NumScreens THEN 0 ELSE screenIndex

ScreenIndexOf(height) ==
    LET screenIndex == NumScreens - getScreenHeightIndex(height) - 2
    IN  IF screenIndex < 0 \/ screenIndex > NumScreens THEN 0 ELSE screenIndex

\* main: the index that reads screenTilemaps (line 423); % as C computes it
\* for an int converted to size_t, which ScreenIndexOf keeps non-negative.
\* A plausible slip: the modulo left out.
ActiveScreenIndex_NoModulo(height) == ScreenIndexOf(height)

ActiveScreenIndex(height) == ScreenIndexOf(height) % NumScreens

\* A plausible slip: the offset of the screen that starts at the height,
\* floorf(height / TILEMAP_SIZE_Y) * TILEMAP_SIZE_Y.
ScreenOffsetY_FromFloor(height) ==
    (height \div (TILEMAP_SIZE_Y * ONE)) * TILEMAP_SIZE_Y * ONE

\* main: screenOffsetY = -(float)(heightIndex + 1) * TILEMAP_SIZE_Y
ScreenOffsetY(height) ==
    -(getScreenHeightIndex(height) + 1) * TILEMAP_SIZE_Y * ONE

-----------------------------------------------------------------------------
(* CollisionResolver *)

getTilesOverlappedByBox(center, size) ==
    [startX |-> Floor(center[1] - size[1]),
     startY |-> Floor(center[2] - size[2]),
     endX   |-> Floor(center[1] + size[1]),
     endY   |-> Floor(center[2] + size[2])]

\* The k-th tile of the scan `for x in startX..endX, for y in startY..endY`.
ScanTile(range, k) ==
    LET ny == range.endY - range.startY + 1
    IN  <<range.startX + ((k - 1) \div ny), range.startY + ((k - 1) % ny)>>

ScanCount(range) ==
    (range.endX - range.startX + 1) * (range.endY - range.startY + 1)

\* Center of the tile box, and the sum of the half-sizes.
BoxPos(x, y) == <<x * ONE + ONE \div 2, y * ONE + ONE \div 2>>

SizeSum(size) == <<size[1] + ONE \div 2, size[2] + ONE \div 2>>

SurfDist(center, size, x, y) ==
    <<Abs(center[1] - BoxPos(x, y)[1]) - SizeSum(size)[1],
      Abs(center[2] - BoxPos(x, y)[2]) - SizeSum(size)[2]>>

\* The neighbour tests of the resolver (lines 217-219).
IsXEmpty(tilemap, center, x, y) ==
    ~tilemapIsTileFull(tilemap,
        x + (IF center[1] > BoxPos(x, y)[1] THEN 1 ELSE -1), y)

IsYEmpty(tilemap, center, x, y) ==
    ~tilemapIsTileFull(tilemap,
        x, y + (IF center[2] > BoxPos(x, y)[2] THEN 1 ELSE -1))

\* A plausible slip: of two open edges, the one with the deeper penetration.
IsClipAxisX_Deepest(tilemap, center, size, x, y) ==
    IF IsXEmpty(tilemap, center, x, y) /\ IsYEmpty(tilemap, center, x, y)
    THEN SurfDist(center, size, x, y)[1] < SurfDist(center, size, x, y)[2]
    ELSE IsXEmpty(tilemap, center, x, y)

\* A plausible slip: X is the clip axis whenever X has an open edge.
IsClipAxisX_PreferX(tilemap, center, size, x, y) ==
    IsXEmpty(tilemap, center, x, y)

\* isClipAxisX (lines 225-229), for a tile with at least one open edge.
IsClipAxisX(tilemap, center, size, x, y) ==
    IF IsXEmpty(tilemap, center, x, y) /\ IsYEmpty(tilemap, center, x, y)
    THEN SurfDist(center, size, x, y)[1] > SurfDist(center, size, x, y)[2]
    ELSE IsXEmpty(tilemap, center, x, y)

\* A plausible slip: the horizontal clip takes the box's center to the
\* tile's edge, its own half-size left out.
ClipX_ToTileEdge(box, size, x, y) ==
    IF box.center[1] > BoxPos(x, y)[1]
    THEN [center   |-> <<BoxPos(x, y)[1] + ONE \div 2, box.center[2]>>,
          velocity |-> IF box.velocity[1] < 0
                       THEN <<RoundDiv(-box.velocity[1] * BOUNCE_FACTOR_X, ONE),
                              box.velocity[2]>>
                       ELSE box.velocity]
    ELSE [center   |-> <<BoxPos(x, y)[1] - ONE \div 2, box.center[2]>>,
          velocity |-> IF box.velocity[1] > 0
                       THEN <<RoundDiv(-box.velocity[1] * BOUNCE_FACTOR_X, ONE),
                              box.velocity[2]>>
                       ELSE box.velocity]

\* The clip of lines 232-256 on one axis.  box = [center, velocity], the
\* center in tilemap local-space.
ClipX(box, size, x, y) ==
    IF box.center[1] > BoxPos(x, y)[1]
    THEN [center   |-> <<BoxPos(x, y)[1] + SizeSum(size)[1], box.center[2]>>,
          velocity |-> IF box.velocity[1] < 0
                       THEN <<RoundDiv(-box.velocity[1] * BOUNCE_FACTOR_X, ONE),
                              box.velocity[2]>>
                       ELSE box.velocity]
    ELSE [center   |-> <<BoxPos(x, y)[1] - SizeSum(size)[1], box.center[2]>>,
          velocity |-> IF box.velocity[1] > 0
                       THEN <<RoundDiv(-box.velocity[1] * BOUNCE_FACTOR_X, ONE),
                              box.velocity[2]>>
                       ELSE box.velocity]

\* A plausible slip: the vertical clip bounces like the horizontal one.
ClipY_Bouncing(box, size, x, y) ==
    IF box.center[2] > BoxPos(x, y)[2]
    THEN [center   |-> <<box.center[1], BoxPos(x, y)[2] + SizeSum(size)[2]>>,
          velocity |-> IF box.velocity[2] < 0
                       THEN <<box.velocity[1],
                              RoundDiv(-box.velocity[2] * BOUNCE_FACTOR_X, ONE)>>
                       ELSE box.velocity]
    ELSE [center   |-> <<box.center[1], BoxPos(x, y)[2] - SizeSum(size)[2]>>,
          velocity |-> IF box.velocity[2] > 0
                       THEN <<box.velocity[1],
                              RoundDiv(-box.velocity[2] * BOUNCE_FACTOR_X, ONE)>>
                       ELSE box.velocity]

\* A plausible slip: the position corrected, velocity.y left as it is.
ClipY_KeepsVelocity(box, size, x, y) ==
    IF box.center[2] > BoxPos(x, y)[2]
    THEN [center   |-> <<box.center[1], BoxPos(x, y)[2] + SizeSum(size)[2]>>,
          velocity |-> box.velocity]
    ELSE [center   |-> <<box.center[1], BoxPos(x, y)[2] - SizeSum(size)[2]>>,
          velocity |-> box.velocity]

ClipY(box, size, x, y) ==
    IF box.center[2] > BoxPos(x, y)[2]
    THEN [center   |-> <<box.center[1], BoxPos(x, y)[2] + SizeSum(size)[2]>>,
          velocity |-> <<box.velocity[1], Max(box.velocity[2], 0)>>]
    ELSE [center   |-> <<box.center[1], BoxPos(x, y)[2] - SizeSum(size)[2]>>,
          velocity |-> <<box.velocity[1], Min(box.velocity[2], 0)>>]

\* A plausible slip: a tile with no open edge is clipped like any other.
ResolveTile_NoEmbeddedSkip(tilemap, size, box, x, y) ==
    IF ~tilemapIsTileFull(tilemap, x, y) THEN box
    ELSE IF SurfDist(box.center, size, x, y)[1] > 0
            \/ SurfDist(box.center, size, x, y)[2] > 0 THEN box
    ELSE IF IsClipAxisX(tilemap, box.center, size, x, y)
         THEN ClipX(box, size, x, y)
         ELSE ClipY(box, size, x, y)

\* A plausible slip: the horizontal clip reverses every velocity.x.
ResolveTile_AlwaysBounce(tilemap, size, box, x, y) ==
    IF ~tilemapIsTileFull(tilemap, x, y) THEN box
    ELSE IF SurfDist(box.center, size, x, y)[1] > 0
            \/ SurfDist(box.center, size, x, y)[2] > 0 THEN box
    ELSE IF ~IsXEmpty(tilemap, box.center, x, y)
            /\ ~IsYEmpty(tilemap, box.center, x, y) THEN box
    ELSE IF IsClipAxisX(tilemap, box.center, size, x, y)
         THEN [center   |-> ClipX(box, size, x, y).center,
               velocity |-> <<-box.velocity[1], box.velocity[2]>>]
         ELSE ClipY(box, size, x, y)

\* The body of the resolver's loops for the tile (x, y) (lines 195-256).
ResolveTile(tilemap, size, box, x, y) ==
    IF ~tilemapIsTileFull(tilemap, x, y) THEN box
    ELSE IF SurfDist(box.center, size, x, y)[1] > 0
            \/ SurfDist(box.center, size, x, y)[2] > 0 THEN box
    ELSE IF ~IsXEmpty(tilemap, box.center, x, y)
            /\ ~IsYEmpty(tilemap, box.center, x, y) THEN box
    ELSE IF IsClipAxisX(tilemap, box.center, size, x, y)
         THEN ClipX(box, size, x, y)
         ELSE ClipY(box, size, x, y)

\* The scan from its k-th tile on; the range is the one computed before the
\* loops (line 190) and is not recomputed when the center moves.
RECURSIVE ResolveScan(_, _, _, _, _)
ResolveScan(tilemap, size, box, range, k) ==
    IF k > ScanCount(range) THEN box
    ELSE ResolveScan(tilemap, size,
            ResolveTile(tilemap, size, box, ScanTile(range, k)[1],
                        ScanTile(range, k)[2]),
            range, k + 1)

\* resolveBoxCollisionWithTilemap: the values left in *center and *velocity.
resolveBoxCollisionWithTilemap(tilemap, tilemapHeight, center, velocity, size) ==
    LET local == <<center[1], center[2] - tilemapHeight>>
        out == ResolveScan(tilemap, size,
                   [center |-> local, velocity |-> velocity],
                   getTilesOverlappedByBox(local, size), 1)
    IN  [center   |-> <<out.center[1], out.center[2] + tilemapHeight>>,
         velocity |-> out.velocity]

\* The body of the overlap test's loops for the tile (x, y) (lines 283-297).
CollidesWithTile(tilemap, size, center, x, y) ==
    /\ tilemapIsTileFull(tilemap, x, y)
    /\ ~(SurfDist(center, size, x, y)[1] > 0
         \/ SurfDist(center, size, x, y)[2] > 0)

isBoxCollidingWithTilemap(tilemap, tilemapHeight, center, size) ==
    LET local == <<center[1], center[2] - tilemapHeight>>
        range == getTilesOverlappedByBox(local, size)
    IN  \E k \in 1..ScanCount(range) :
            CollidesWithTile(tilemap, size, local,
                             ScanTile(range, k)[1], ScanTile(range, k)[2])

-----------------------------------------------------------------------------
(* raymath on fixed-point vectors *)

\* The least r in lo..hi with r * r >= n.
RECURSIVE SqrtSearch(_, _, _)
SqrtSearch(n, lo, hi) ==
    IF lo >= hi THEN lo
    ELSE LET mid == (lo + hi) \div 2
         IN  IF mid * mid >= n THEN SqrtSearch(n, lo, mid)
             ELSE SqrtSearch(n, mid + 1, hi)

\* Vector2Length: sqrtf(x*x + y*y), rounded up to the fixed-point grid; the
\* length lies between the longer component and the sum of the two.
Vector2Length(v) ==
    SqrtSearch(v[1] * v[1] + v[2] * v[2],
               Max(Abs(v[1]), Abs(v[2])), Abs(v[1]) + Abs(v[2]))

\* a / b rounded toward zero (b > 0): with the length rounded up, rounding
\* never makes a scaled vector longer than the length asked for.
TruncDiv(a, b) == IF a >= 0 THEN a \div b ELSE -((-a) \div b)

\* Vector2Scale(Vector2Normalize(v), scale): v * (1 / |v|) * scale, the
\* zero vector left as it is by Vector2Normalize.
ScaleNormalized(v, scale) ==
    LET length == Vector2Length(v)
    IN  IF length > 0
        THEN <<TruncDiv(v[1] * scale, length), TruncDiv(v[2] * scale, length)>>
        ELSE <<0, 0>>

\* v * delta, delta in time steps.
ScaleByDelta(v, delta) ==
    <<RoundDiv(v[1] * delta, TICKS), RoundDiv(v[2] * delta, TICKS)>>

-----------------------------------------------------------------------------
(* PlayerController *)

\* A plausible slip: the probe centered on the player, not at its feet.
GroundProbe_AtCenter(tilemap, tilemapHeight, pos) ==
    isBoxCollidingWithTilemap(tilemap, tilemapHeight, pos, PROBE_SIZE)

\* The ground probe of updatePlayer (lines 307-311).
GroundProbe(tilemap, tilemapHeight, pos) ==
    isBoxCollidingWithTilemap(tilemap, tilemapHeight,
        <<pos[1], pos[2] + PLAYER_SIZE[2]>>, PROBE_SIZE)

\* A plausible slip: the charge clamped from above only.
JumpStrength_NoMinimum(hold) ==
    RoundDiv(Clamp(RoundDiv(hold * 26 * ONE, 10 * TICKS), 0, 2 * ONE), 2)

\* jumpStrength = Clamp(jumpHoldTime * 2.6f, 1.1f, 2.0f) / 2.0f
JumpStrength(hold) ==
    RoundDiv(Clamp(RoundDiv(hold * 26 * ONE, 10 * TICKS),
                   ONE + ONE \div 10, 2 * ONE), 2)

\* The launch velocity of lines 324-334.
JumpVelocity(hold, right, left) ==
    LET jumpStrength == JumpStrength(hold)
        xMoveStrength == (3 * ONE) \div 4 - RoundDiv(jumpStrength, 2)
        dir == <<(IF right THEN xMoveStrength ELSE 0)
                    - (IF left THEN xMoveStrength ELSE 0), -ONE>>
    IN  ScaleNormalized(dir, jumpStrength * PLAYER_JUMP_STRENGTH)

\* A plausible slip: each component clamped on its own.
ClampSpeed_PerAxis(v) ==
    <<Clamp(v[1], -25 * ONE, 25 * ONE), Clamp(v[2], -25 * ONE, 25 * ONE)>>

\* The speed clamp of lines 361-363.
ClampSpeed(v) ==
    LET vel == Vector2Length(v)
    IN  ScaleNormalized(v, IF vel > 25 * ONE THEN 25 * ONE ELSE vel)

\* velocity.y += PLAYER_GRAVITY * delta (line 306).
Fallen(v, delta) ==
    <<v[1], v[2] + RoundDiv(PLAYER_GRAVITY * ONE * delta, TICKS)>>

\* A plausible slip: velocity.x not reset on the ground.
GroundedVelocity_KeepsVelocityX(v, hold, delta, keys) ==
    LET launched == IF keys.spaceReleased
                    THEN JumpVelocity(hold, keys.right, keys.left)
                    ELSE v
        walkStep == RoundDiv(PLAYER_SPEED * ONE * delta, TICKS)
    IN  IF keys.space THEN launched
        ELSE <<launched[1] + (IF keys.right THEN walkStep ELSE 0)
                           - (IF keys.left THEN walkStep ELSE 0),
               launched[2]>>

\* The velocity the grounded branch leaves (lines 316-354): velocity.x = 0,
\* the launch when the jump key was released, and, the jump key being up,
\* PLAYER_SPEED * delta added for right and subtracted for left.
GroundedVelocity(v, hold, delta, keys) ==
    LET launched == IF keys.spaceReleased
                    THEN JumpVelocity(hold, keys.right, keys.left)
                    ELSE <<0, v[2]>>
        walkStep == RoundDiv(PLAYER_SPEED * ONE * delta, TICKS)
    IN  IF keys.space THEN launched
        ELSE <<launched[1] + (IF keys.right THEN walkStep ELSE 0)
                           - (IF keys.left THEN walkStep ELSE 0),
               launched[2]>>

\* A plausible slip: a jump key released in the air launches the player.
VelocityBeforeClamp_AirLaunch(player, onGround, delta, keys) ==
    IF onGround \/ keys.spaceReleased
    THEN GroundedVelocity(Fallen(player.velocity, delta), player.jumpHoldTime,
                          delta, keys)
    ELSE Fallen(player.velocity, delta)

\* player->velocity as line 361 reads it.
VelocityBeforeClamp(player, onGround, delta, keys) ==
    IF onGround
    THEN GroundedVelocity(Fallen(player.velocity, delta), player.jumpHoldTime,
                          delta, keys)
    ELSE Fallen(player.velocity, delta)

\* A plausible slip: the charge kept while the key is held in the air.
HoldTime_ChargedInAir(hold, onGround, delta, keys) ==
    IF keys.space THEN hold + delta ELSE 0

\* jumpHoldTime as lines 337-358 leave it.
HoldTime(hold, onGround, delta, keys) ==
    IF onGround /\ keys.space THEN hold + delta ELSE 0

\* A plausible slip: the player turns whether or not the jump key is held.
Facing_WhileCharging(facing, onGround, keys) ==
    IF onGround
    THEN (IF keys.left THEN FALSE ELSE IF keys.right THEN TRUE ELSE facing)
    ELSE facing

\* isFacingRight as lines 340-349 leave it.
Facing(facing, onGround, keys) ==
    IF onGround /\ ~keys.space
    THEN (IF keys.left THEN FALSE ELSE IF keys.right THEN TRUE ELSE facing)
    ELSE facing

\* updatePlayer: the player it leaves.  keys = [right, left, space,
\* spaceReleased]: IsKeyDown(KEY_RIGHT) || IsKeyDown(KEY_D),
\* IsKeyDown(KEY_LEFT) || IsKeyDown(KEY_A), IsKeyDown(KEY_SPACE),
\* IsKeyReleased(KEY_SPACE).  animTime is read by the drawing code alone and
\* is not part of the model.
updatePlayer(player, tilemap, tilemapHeight, delta, keys) ==
    LET onGround == GroundProbe(tilemap, tilemapHeight, player.position)
        clamped == ClampSpeed(VelocityBeforeClamp(player, onGround, delta, keys))
        stepped == ScaleByDelta(clamped, delta)
    IN  [position      |-> <<player.position[1] + stepped[1],
                             player.position[2] + stepped[2]>>,
         velocity      |-> clamped,
         jumpHoldTime  |-> HoldTime(player.jumpHoldTime, onGround, delta, keys),
         isOnGround    |-> onGround,
         isFacingRight |-> Facing(player.isFacingRight, onGround, keys)]

-----------------------------------------------------------------------------
(* State *)

VARIABLES
    \* struct Player and the keyboard state main keeps between frames
    position, velocity, jumpHoldTime, isOnGround, isFacingRight,
    isDebugEnabled, spaceWasDown,
    \* frames run so far, and frames so far in which a debug key was pressed
    frame, debugPresses,
    \* the arguments of a collision call: the grid, its offset, the box
    tilemap, tilemapHeight, size,
    \* *center and *velocity: before the first call, before the latest call, now
    boxFirst, boxArg, box,
    \* calls made so far, and what isBoxCollidingWithTilemap returned
    calls, colliding,
    \* a tile query and what tilemapGetTile and tilemapIsTileFull returned
    qx, qy, qTile, qFull,
    \* a world height, the screen the frame loop selects for it, and the
    \* selection before the latest move by one screen height
    height, screen, prevScreen, moved,
    \* tiles of the resolver's scan visited so far
    scanIndex,
    \* the arguments of the latest updatePlayer call
    upArg,
    \* what the latest frame passed to and got from the calls it made
    last

playerVars == <<position, velocity, jumpHoldTime, isOnGround, isFacingRight,
                isDebugEnabled, spaceWasDown, frame, debugPresses>>

boxVars == <<tilemap, tilemapHeight, size, boxFirst, boxArg, box, calls,
             colliding>>

queryVars == <<qx, qy, qTile, qFull>>

screenVars == <<height, screen, prevScreen, moved>>

traceVars == <<scanIndex, upArg, last>>

vars == <<playerVars, boxVars, queryVars, screenVars, traceVars>>

\* A center of the collision calls in tilemap local-space.
Local(center) == <<center[1], center[2] - tilemapHeight>>

-----------------------------------------------------------------------------
(* Bounds of the checked inputs *)

\* Most '#' cells of a test grid.
MaxSolid == 2
\* Most successive resolve calls on one box.
MaxCalls == 2
\* Tile queries reach this many tiles past each edge of the grid.
QueryMargin == 3
\* Heights reach this many screens above and below the authored ones.
ScreenMargin == 3
\* Most frames of a run.
MaxFrames == 5
\* Most frames of a run in which a debug key is pressed.
MaxDebugPresses == 2
\* frames of a run of the launch frames below
MaxLaunchFrames == 3
\* frames of a run of the resting frames below
MaxRestFrames == 2
\* frames of a run of the idle frames below
MaxIdleFrames == 8

\* The cells a test grid may fill: three columns by three rows at the
\* bottom of the grid, one column away from its left edge.
GridCells == {<<x, y>> : x \in 1..3, y \in (TILEMAP_SIZE_Y - 3)..(TILEMAP_SIZE_Y - 1)}

GridTilemaps ==
    {GridTilemap(s) : s \in {t \in SUBSET GridCells : Cardinality(t) <= MaxSolid}}

Screens == {ScreenTilemap(i) : i \in 0..(NumScreens - 1)}

\* Bytes a Tilemap cell may store: the three of enum Tile, and others.
StoredBytes == {TILE_ZERO, TILE_EMPTY, TILE_FULL, 1, 46, 120, 255}

FillTilemaps == {FillTilemap(b) : b \in StoredBytes}

\* Box centers in local space, a twentieth of a tile apart, over the tile
\* in the middle of GridCells; and the center of the landing scenario.
BoxStep == ONE \div 20

BoxCenters ==
    {<<2 * ONE + i * BoxStep, (TILEMAP_SIZE_Y - 2) * ONE + j * BoxStep>> :
        i \in 0..19, j \in 0..19}
    \cup {<<2 * ONE, 11 * ONE + 600>>}

\* Centers of probed boxes: BoxCenters, and centers beside the left edge,
\* the right edge and the bottom edge of the grid, where the tiles past the
\* edge are the out-of-bounds ones.
ProbeCenters ==
    BoxCenters
    \cup {<<x, (TILEMAP_SIZE_Y - 2) * ONE + ONE \div 2>> :
             x \in {ONE \div 4, ONE \div 4 + BoxStep,
                    TILEMAP_SIZE_X * ONE - ONE \div 4 - BoxStep,
                    TILEMAP_SIZE_X * ONE - ONE \div 4}}
    \cup {<<2 * ONE + ONE \div 2, TILEMAP_SIZE_Y * ONE - ONE \div 5>>}

BoxVelocities == {<<-ONE, 2 * ONE>>, <<ONE, -2 * ONE>>, <<ONE, 2 * ONE>>}

\* Offsets the frame loop passes: whole screens.
BoxOffsets == {0, -TILEMAP_SIZE_Y * ONE}

\* Half-sizes of the probed boxes: the ground probe and a quarter tile.
ProbeSizes == {PROBE_SIZE, <<ONE \div 4, ONE \div 4>>}

NoBox == [center |-> <<0, 0>>, velocity |-> <<0, 0>>]

NoScreen == [heightIndex |-> 0, screenIndex |-> 0, active |-> 0, offsetY |-> 0,
             height |-> 0]

\* No updatePlayer call made.
NoUpdate ==
    [player |-> [position |-> <<0, 0>>, velocity |-> <<0, 0>>,
                 jumpHoldTime |-> 0, isOnGround |-> FALSE,
                 isFacingRight |-> FALSE],
     delta |-> 0,
     keys |-> [right |-> FALSE, left |-> FALSE, space |-> FALSE,
               spaceReleased |-> FALSE]]

\* No frame run.
NoFrame ==
    [ran |-> FALSE, map |-> 0, offset |-> 0, startAt |-> <<0, 0>>,
     movedTo |-> <<0, 0>>, movedWith |-> <<0, 0>>, resolvedTo |-> <<0, 0>>,
     teleported |-> FALSE, cameFrom |-> <<0, 0>>, cameByTeleport |-> FALSE,
     launched |-> FALSE, cameByLaunch |-> FALSE]

TraceIdle == scanIndex = 0 /\ upArg = NoUpdate /\ last = NoFrame

PlayerIdle ==
    /\ position = <<0, 0>> /\ velocity = <<0, 0>> /\ jumpHoldTime = 0
    /\ isOnGround = FALSE /\ isFacingRight = FALSE /\ isDebugEnabled = FALSE
    /\ spaceWasDown = FALSE /\ frame = 0 /\ debugPresses = 0

BoxIdle ==
    /\ tilemap = ScreenTilemap(0) /\ tilemapHeight = 0 /\ size = PLAYER_SIZE
    /\ boxFirst = NoBox /\ boxArg = NoBox /\ box = NoBox
    /\ calls = 0 /\ colliding = FALSE

QueryIdle == qx = 0 /\ qy = 0 /\ qTile = -1 /\ qFull = FALSE

ScreenIdle ==
    height = 0 /\ screen = NoScreen /\ prevScreen = NoScreen /\ moved = 0

-----------------------------------------------------------------------------
(* Tile queries: tilemapGetTile and tilemapIsTileFull on every screen and  *)
(* on grids of every stored byte                                           *)

InitTile ==
    /\ PlayerIdle /\ ScreenIdle /\ TraceIdle
    /\ tilemap \in Screens \cup FillTilemaps
                       \cup {GridTilemap({<<1, TILEMAP_SIZE_Y - 1>>})}
    /\ tilemapHeight = 0 /\ size = PLAYER_SIZE
    /\ boxFirst = NoBox /\ boxArg = NoBox /\ box = NoBox
    /\ calls = 0 /\ colliding = FALSE
    /\ qx \in (-QueryMargin)..(TILEMAP_SIZE_X - 1 + QueryMargin)
    /\ qy \in (-QueryMargin)..(TILEMAP_SIZE_Y - 1 + QueryMargin)
    /\ qTile = -1 /\ qFull = FALSE

GetTile ==
    /\ qTile = -1
    /\ qTile' = tilemapGetTile(tilemap, qx, qy)
    /\ qFull' = tilemapIsTileFull(tilemap, qx, qy)
    /\ UNCHANGED <<qx, qy, playerVars, boxVars, screenVars, traceVars>>

NextTile == GetTile

SpecTile == InitTile /\ [][NextTile]_vars

-----------------------------------------------------------------------------
(* Screen selection: lines 420-425 of the frame loop, and the moves by one *)
(* screen height (the debug keys PAGE_UP and PAGE_DOWN, lines 443-444)     *)

SelectScreen(h) ==
    [heightIndex |-> getScreenHeightIndex(h),
     screenIndex |-> ScreenIndexOf(h),
     active      |-> ActiveScreenIndex(h),
     offsetY     |-> ScreenOffsetY(h),
     height      |-> h]

\* Heights over the starting screen, a quarter tile apart: 0 <= h <= H.
StartHeights ==
    {TILEMAP_SIZE_Y * ONE - i * (ONE \div 4) : i \in 0..(4 * TILEMAP_SIZE_Y)}

InitScreen ==
    /\ PlayerIdle /\ BoxIdle /\ QueryIdle /\ TraceIdle
    /\ height \in StartHeights
    /\ screen = SelectScreen(height)
    /\ prevScreen = NoScreen
    /\ moved = 0

PageUp ==
    /\ height - TILEMAP_SIZE_Y * ONE > -(NumScreens + ScreenMargin) * TILEMAP_SIZE_Y * ONE
    /\ height' = height - TILEMAP_SIZE_Y * ONE
    /\ prevScreen' = screen
    /\ screen' = SelectScreen(height')
    /\ moved' = -1
    /\ UNCHANGED <<playerVars, boxVars, queryVars, traceVars>>

PageDown ==
    /\ height + TILEMAP_SIZE_Y * ONE <= (ScreenMargin + 1) * TILEMAP_SIZE_Y * ONE
    /\ height' = height + TILEMAP_SIZE_Y * ONE
    /\ prevScreen' = screen
    /\ screen' = SelectScreen(height')
    /\ moved' = 1
    /\ UNCHANGED <<playerVars, boxVars, queryVars, traceVars>>

NextScreen == PageUp \/ PageDown

SpecScreen == InitScreen /\ [][NextScreen]_vars

-----------------------------------------------------------------------------
(* The overlap test on test grids *)

InitProbe ==
    /\ PlayerIdle /\ QueryIdle /\ ScreenIdle /\ TraceIdle
    /\ tilemap \in GridTilemaps
    /\ tilemapHeight \in BoxOffsets
    /\ size \in ProbeSizes
    /\ \E c \in ProbeCenters :
          boxFirst = [center |-> <<c[1], c[2] + tilemapHeight>>,
                      velocity |-> <<0, 0>>]
    /\ boxArg = boxFirst /\ box = boxFirst
    /\ calls = 0 /\ colliding = FALSE

Probe ==
    /\ calls = 0
    /\ calls' = 1
    /\ colliding' = isBoxCollidingWithTilemap(tilemap, tilemapHeight,
                                              box.center, size)
    /\ UNCHANGED <<tilemap, tilemapHeight, size, boxFirst, boxArg, box,
                   playerVars, queryVars, screenVars, traceVars>>

NextProbe == Probe

SpecProbe == InitProbe /\ [][NextProbe]_vars

-----------------------------------------------------------------------------
(* The resolver on test grids, called again on its own result *)

InitResolve ==
    /\ PlayerIdle /\ QueryIdle /\ ScreenIdle /\ TraceIdle
    /\ tilemap \in GridTilemaps
    /\ tilemapHeight \in BoxOffsets
    /\ size = PLAYER_SIZE
    /\ \E c \in BoxCenters, v \in BoxVelocities :
          boxFirst = [center |-> <<c[1], c[2] + tilemapHeight>>,
                      velocity |-> v]
    /\ boxArg = boxFirst /\ box = boxFirst
    /\ calls = 0 /\ colliding = FALSE

Resolve ==
    /\ calls < MaxCalls
    /\ calls' = calls + 1
    /\ boxArg' = box
    /\ box' = resolveBoxCollisionWithTilemap(tilemap, tilemapHeight,
                                             box.center, box.velocity, size)
    /\ UNCHANGED <<tilemap, tilemapHeight, size, boxFirst, colliding,
                   playerVars, queryVars, screenVars, traceVars>>

NextResolve == Resolve

SpecResolve == InitResolve /\ [][NextResolve]_vars

-----------------------------------------------------------------------------
(* The resolver's scan on test grids, one tile at a time *)

\* Centers of boxes beyond the left and the right edge of the grid: within
\* half a tile of the edge, and a tile and a half away from it.
EdgeCenters ==
    {<<x, (TILEMAP_SIZE_Y - 2) * ONE + ONE \div 2>> :
        x \in {-(2 * ONE) \div 5, -(3 * ONE) \div 2,
               TILEMAP_SIZE_X * ONE + (2 * ONE) \div 5,
               TILEMAP_SIZE_X * ONE + (3 * ONE) \div 2}}

ClipVelocities == BoxVelocities \cup {<<0, 0>>}

\* The range of the scan, computed from the center the call was given.
ScanRange == getTilesOverlappedByBox(Local(boxFirst.center), size)

InitClip ==
    /\ PlayerIdle /\ QueryIdle /\ ScreenIdle /\ TraceIdle
    /\ tilemap \in GridTilemaps
    /\ tilemapHeight = -TILEMAP_SIZE_Y * ONE
    /\ size = PLAYER_SIZE
    /\ \E c \in BoxCenters \cup EdgeCenters, v \in ClipVelocities :
          boxFirst = [center |-> <<c[1], c[2] + tilemapHeight>>,
                      velocity |-> v]
    /\ boxArg = boxFirst /\ box = boxFirst
    /\ calls = 0 /\ colliding = FALSE

\* One pass of the loop body: the next tile of the scan is read and the box
\* clipped against it.
ClipTile ==
    /\ scanIndex < ScanCount(ScanRange)
    /\ LET t == ScanTile(ScanRange, scanIndex + 1)
           out == ResolveTile(tilemap, size,
                      [center |-> Local(box.center), velocity |-> box.velocity],
                      t[1], t[2])
       IN  /\ qx' = t[1]
           /\ qy' = t[2]
           /\ qTile' = tilemapGetTile(tilemap, t[1], t[2])
           /\ qFull' = tilemapIsTileFull(tilemap, t[1], t[2])
           /\ boxArg' = box
           /\ box' = [center   |-> <<out.center[1], out.center[2] + tilemapHeight>>,
                      velocity |-> out.velocity]
    /\ scanIndex' = scanIndex + 1
    /\ UNCHANGED <<tilemap, tilemapHeight, size, boxFirst, calls, colliding,
                   upArg, last, playerVars, screenVars>>

NextClip == ClipTile

SpecClip == InitClip /\ [][NextClip]_vars

-----------------------------------------------------------------------------
(* updatePlayer on the starting screen, one call on a given player *)

\* Positions on the starting screen: in the air, a tenth and a twentieth of
\* a tile above the floor, on the floor, on the floor beside the wall, and
\* inside the wall.
UpdatePositions ==
    {<<8 * ONE, 6 * ONE>>, <<8 * ONE, 10 * ONE + 500>>,
     <<8 * ONE, 10 * ONE + 550>>, <<8 * ONE, 10 * ONE + 600>>,
     <<5 * ONE + 300, 10 * ONE + 600>>, <<3 * ONE + 646, 9 * ONE + 855>>}

\* Velocities: at rest, falling, walking, rising, and faster than the clamp.
UpdateVelocities ==
    {<<0, 0>>, <<0, 15 * ONE>>, <<-20 * ONE, 0>>, <<5 * ONE, -3 * ONE>>,
     <<20 * ONE, -20 * ONE>>}

\* Charges: none, 0.1 s, 0.5 s and 1 s.
UpdateHoldTimes == {0, TICKS \div 10, TICKS \div 2, TICKS}

\* delta as main clamps it: the two ends of the range and 0.02 s.
UpdateDeltas == {1, TICKS \div 50, TICKS \div 10}

\* Key states: the space key is not both down and just released.
KeyStates ==
    {k \in [right : BOOLEAN, left : BOOLEAN, space : BOOLEAN,
            spaceReleased : BOOLEAN] : ~(k.space /\ k.spaceReleased)}

InitUpdate ==
    /\ QueryIdle /\ ScreenIdle /\ TraceIdle
    /\ tilemap = ScreenTilemap(NumScreens - 1) /\ tilemapHeight = 0
    /\ size = PLAYER_SIZE
    /\ boxFirst = NoBox /\ boxArg = NoBox /\ box = NoBox
    /\ calls = 0 /\ colliding = FALSE
    /\ position \in UpdatePositions
    /\ velocity \in UpdateVelocities
    /\ jumpHoldTime \in UpdateHoldTimes
    /\ isOnGround \in BOOLEAN
    /\ isFacingRight \in BOOLEAN
    /\ isDebugEnabled = FALSE /\ spaceWasDown = FALSE
    /\ frame = 0 /\ debugPresses = 0

Update ==
    /\ calls = 0
    /\ calls' = 1
    /\ \E delta \in UpdateDeltas, keys \in KeyStates :
          LET player == [position |-> position, velocity |-> velocity,
                         jumpHoldTime |-> jumpHoldTime,
                         isOnGround |-> isOnGround,
                         isFacingRight |-> isFacingRight]
              updated == updatePlayer(player, tilemap, tilemapHeight, delta, keys)
          IN  /\ upArg' = [player |-> player, delta |-> delta, keys |-> keys]
              /\ position' = updated.position
              /\ velocity' = updated.velocity
              /\ jumpHoldTime' = updated.jumpHoldTime
              /\ isOnGround' = updated.isOnGround
              /\ isFacingRight' = updated.isFacingRight
    /\ UNCHANGED <<isDebugEnabled, spaceWasDown, frame, debugPresses,
                   tilemap, tilemapHeight, size, boxFirst, boxArg, box,
                   colliding, scanIndex, last, queryVars, screenVars>>

\* Line 431 after line 430: the resolver on the player updatePlayer left.
ResolveUpdated ==
    /\ calls = 1
    /\ calls' = 2
    /\ \E resolved \in {resolveBoxCollisionWithTilemap(tilemap, tilemapHeight,
                              position, velocity, PLAYER_SIZE)} :
          /\ boxArg' = [center |-> position, velocity |-> velocity]
          /\ box' = resolved
          /\ position' = resolved.center
          /\ velocity' = resolved.velocity
    /\ UNCHANGED <<jumpHoldTime, isOnGround, isFacingRight, isDebugEnabled,
                   spaceWasDown, frame, debugPresses, tilemap, tilemapHeight,
                   size, boxFirst, colliding, scanIndex, upArg, last,
                   queryVars, screenVars>>

NextUpdate == Update \/ ResolveUpdated

SpecUpdate == InitUpdate /\ [][NextUpdate]_vars

-----------------------------------------------------------------------------
(* The frame loop of main *)

\* GetFrameTime() of the frames of a run, in time steps: 50 and 10 frames a
\* second, and a hitch of a quarter of a second.
FrameTimes == {TICKS \div 50, TICKS \div 10, TICKS \div 4}

\* What the keyboard and the clock give a frame: the frame time, the keys
\* held (right: KEY_RIGHT or KEY_D, left: KEY_LEFT or KEY_A, space), and the
\* debug key pressed in it, if any (KEY_I, KEY_PAGE_UP, KEY_PAGE_DOWN).  A
\* debug key is pressed in a frame of its own, with no other key held.
FrameInputs ==
    [frameTime : FrameTimes, right : BOOLEAN, left : BOOLEAN, space : BOOLEAN,
     debugKey : {"none"}]
    \cup [frameTime : {TICKS \div 50}, right : {FALSE}, left : {FALSE},
          space : {FALSE}, debugKey : {"I", "PAGE_UP", "PAGE_DOWN"}]

\* The values delta takes (line 418: the frame time clamped).
FrameDeltas == {Clamp(in.frameTime, 1, TICKS \div 10) : in \in FrameInputs}

\* main, lines 403-406: Player player = {} and its position in the middle
\* of the view.
InitPlayer ==
    /\ position = <<(TILEMAP_SIZE_X * ONE) \div 2, (TILEMAP_SIZE_Y * ONE) \div 2>>
    /\ velocity = <<0, 0>>
    /\ jumpHoldTime = 0
    /\ isOnGround = FALSE
    /\ isFacingRight = FALSE
    /\ isDebugEnabled = FALSE
    /\ spaceWasDown = FALSE
    /\ debugPresses = 0
    /\ frame = 0

\* The player as the frame that lands it on the floor of the starting
\* screen leaves it: five frames of 0.1 s and one of 0.02 s after InitPlayer,
\* no key held, take position.y over 6.3, 6.9, 7.8, 9.0, 10.5 to 10.812,
\* which the resolver moves up to the floor's surface, 11.5 - 0.9.
LandedPlayer ==
    /\ position = <<(TILEMAP_SIZE_X * ONE) \div 2,
                    (TILEMAP_SIZE_Y - 1) * ONE - PLAYER_SIZE[2]>>
    /\ velocity = <<0, 0>>
    /\ jumpHoldTime = 0
    /\ isOnGround = FALSE
    /\ isFacingRight = FALSE
    /\ isDebugEnabled = FALSE
    /\ spaceWasDown = FALSE
    /\ debugPresses = 0
    /\ frame = 0

Init ==
    /\ InitPlayer \/ LandedPlayer
    /\ BoxIdle /\ QueryIdle /\ ScreenIdle /\ TraceIdle

\* A plausible slip: the resolver called before updatePlayer.
FrameSteps_ResolveFirst(player, screenMap, screenOffsetY, delta, keys) ==
    LET resolved == resolveBoxCollisionWithTilemap(screenMap, screenOffsetY,
                        player.position, player.velocity, PLAYER_SIZE)
        updated == updatePlayer(
                       [player EXCEPT !.position = resolved.center,
                                      !.velocity = resolved.velocity],
                       screenMap, screenOffsetY, delta, keys)
    IN  [updated |-> updated, resolved |-> resolved, player |-> updated]

\* Lines 430-431: updatePlayer, then the resolver on the position and the
\* velocity updatePlayer left in the same Player, both with the tilemap and
\* the offset the frame selected.
FrameSteps(player, screenMap, screenOffsetY, delta, keys) ==
    LET updated == updatePlayer(player, screenMap, screenOffsetY, delta, keys)
        resolved == resolveBoxCollisionWithTilemap(screenMap, screenOffsetY,
                        updated.position, updated.velocity, PLAYER_SIZE)
    IN  [updated |-> updated, resolved |-> resolved,
         player |-> [updated EXCEPT !.position = resolved.center,
                                    !.velocity = resolved.velocity]]

\* One iteration of the main loop (lines 417-446): the delta clamp, the
\* screen selection from the position the frame starts with, updatePlayer,
\* the resolver, the debug move by one screen.
FrameWith(frameTime, right, left, space, debugKey) ==
    LET delta == Clamp(frameTime, 1, TICKS \div 10)
        screenIndex == ActiveScreenIndex(position[2])
        screenOffsetY == ScreenOffsetY(position[2])
        debugOn == IF debugKey = "I" THEN ~isDebugEnabled ELSE isDebugEnabled
        keys == [right |-> right, left |-> left, space |-> space,
                 spaceReleased |-> spaceWasDown /\ ~space]
        pageMove == IF ~debugOn THEN 0
                    ELSE IF debugKey = "PAGE_UP" THEN -TILEMAP_SIZE_Y * ONE
                    ELSE IF debugKey = "PAGE_DOWN" THEN TILEMAP_SIZE_Y * ONE
                    ELSE 0
    IN  \E steps \in {FrameSteps(
                     [position |-> position, velocity |-> velocity,
                      jumpHoldTime |-> jumpHoldTime, isOnGround |-> isOnGround,
                      isFacingRight |-> isFacingRight],
                     ScreenTilemap(screenIndex), screenOffsetY, delta, keys)} :
        /\ position' = <<steps.player.position[1],
                         steps.player.position[2] + pageMove>>
        /\ velocity' = steps.player.velocity
        /\ jumpHoldTime' = steps.player.jumpHoldTime
        /\ isOnGround' = steps.player.isOnGround
        /\ isFacingRight' = steps.player.isFacingRight
        /\ last' = [ran |-> TRUE, map |-> screenIndex, offset |-> screenOffsetY,
                    startAt |-> position,
                    movedTo |-> steps.updated.position,
                    movedWith |-> steps.updated.velocity,
                    resolvedTo |-> steps.resolved.center,
                    teleported |-> pageMove # 0,
                    cameFrom |-> last.resolvedTo,
                    cameByTeleport |-> last.teleported,
                    launched |-> steps.updated.isOnGround /\ keys.spaceReleased,
                    cameByLaunch |-> last.launched]
        /\ isDebugEnabled' = debugOn
        /\ spaceWasDown' = space
        /\ debugPresses' = debugPresses + (IF debugKey = "none" THEN 0 ELSE 1)
        /\ frame' = frame + 1

Frame ==
    /\ frame < MaxFrames
    /\ \E in \in FrameInputs :
          /\ in.debugKey # "none" => debugPresses < MaxDebugPresses
          /\ FrameWith(in.frameTime, in.right, in.left, in.space, in.debugKey)
    /\ UNCHANGED <<boxVars, queryVars, screenVars, scanIndex, upArg>>

Next == Frame

Spec == Init /\ [][Next]_vars

-----------------------------------------------------------------------------
(* Frames at high frame rates, from the landed player *)

\* Frame times of line 418's range: its lower end, 0.005 s and 0.02 s.
LaunchTimes == {1, TICKS \div 200, TICKS \div 50}

LaunchInputs ==
    [frameTime : LaunchTimes, right : BOOLEAN, left : {FALSE},
     space : BOOLEAN, debugKey : {"none"}]

InitLaunch ==
    /\ LandedPlayer
    /\ BoxIdle /\ QueryIdle /\ ScreenIdle /\ TraceIdle

LaunchFrame ==
    /\ frame < MaxLaunchFrames
    /\ \E in \in LaunchInputs :
          FrameWith(in.frameTime, in.right, in.left, in.space, in.debugKey)
    /\ UNCHANGED <<boxVars, queryVars, screenVars, scanIndex, upArg>>

NextLaunch == LaunchFrame

SpecLaunch == InitLaunch /\ [][NextLaunch]_vars

-----------------------------------------------------------------------------
(* Frames with no key ever pressed, from the constructed player *)

\* Frame times of line 418's range: both ends and 0.02 s.
IdleTimes == {1, TICKS \div 50, TICKS \div 10}

InitIdle ==
    /\ InitPlayer
    /\ BoxIdle /\ QueryIdle /\ ScreenIdle /\ TraceIdle

IdleFrame ==
    /\ frame < MaxIdleFrames
    /\ \E frameTime \in IdleTimes :
          FrameWith(frameTime, FALSE, FALSE, FALSE, "none")
    /\ UNCHANGED <<boxVars, queryVars, screenVars, scanIndex, upArg>>

NextIdle == IdleFrame

SpecIdle == InitIdle /\ [][NextIdle]_vars

-----------------------------------------------------------------------------
(* Vocabulary of the claims *)

\* isSolid of the specification: get(x, y) is neither Empty nor ZeroValue.
Solid(tm, x, y) == tilemapGetTile(tm, x, y) \notin {TILE_EMPTY, TILE_ZERO}

\* The tiles within two tiles of the tile under a local-space center: every
\* tile a box of the checked sizes can touch, and the neighbours of those.
TilesNear(center) ==
    {<<x, y>> : x \in (Floor(center[1]) - 2)..(Floor(center[1]) + 2),
                y \in (Floor(center[2]) - 2)..(Floor(center[2]) + 2)}

\* The speed limit of line 362, and x^2 + y^2 of a vector.
MAX_SPEED == 25 * ONE

SquaredLength(v) == v[1] * v[1] + v[2] * v[2]

\* surfDist <= 0 on both axes (touching counts), and < 0 on both.
Overlaps(center, sz, x, y) ==
    SurfDist(center, sz, x, y)[1] <= 0 /\ SurfDist(center, sz, x, y)[2] <= 0

OverlapsStrictly(center, sz, x, y) ==
    SurfDist(center, sz, x, y)[1] < 0 /\ SurfDist(center, sz, x, y)[2] < 0

Scanned(center, sz, x, y) ==
    LET range == getTilesOverlappedByBox(center, sz)
    IN  x \in range.startX..range.endX /\ y \in range.startY..range.endY

-----------------------------------------------------------------------------
(* A frame with no key held, from a player at rest on a surface *)

\* The player's feet are on the top surface of solid tiles of the active
\* screen under the whole width of its box, and the tiles the box occupies
\* are not solid.
Resting(pos) ==
    LET map == ScreenTilemap(ActiveScreenIndex(pos[2]))
        feet == pos[2] - ScreenOffsetY(pos[2]) + PLAYER_SIZE[2]
        columns == Floor(pos[1] - PLAYER_SIZE[1])
                       ..Floor(pos[1] + PLAYER_SIZE[1] - 1)
        rows == Floor(feet - 2 * PLAYER_SIZE[2])..(Floor(feet) - 1)
    IN  /\ feet % ONE = 0
        /\ \A x \in columns :
              /\ Solid(map, x, Floor(feet))
              /\ \A y \in rows : ~Solid(map, x, y)

\* Where the box lies within its tile: on the tile's edge, straddling it,
\* touching it with either side, and in the middle.
RestAlignments ==
    {0, ONE \div 5, PLAYER_SIZE[1], ONE \div 2, ONE - PLAYER_SIZE[1],
     ONE - ONE \div 10}

\* Every position of the level with the feet on a tile boundary.
RestPositions ==
    {<<x * ONE + a, y * ONE - PLAYER_SIZE[2]>> :
        x \in 0..(TILEMAP_SIZE_X - 1), a \in RestAlignments,
        y \in (-(NumScreens - 2) * TILEMAP_SIZE_Y + 1)..TILEMAP_SIZE_Y}

\* Frame times of line 418's range: both ends, 0.005 s and 0.02 s.
RestTimes == {1, TICKS \div 200, TICKS \div 50, TICKS \div 10}

\* The player at rest; the jump key was up in the frame before, or down
\* with no charge or half a second of it.
InitRest ==
    /\ position \in {pos \in RestPositions : Resting(pos)}
    /\ velocity = <<0, 0>>
    /\ isOnGround \in BOOLEAN
    /\ isFacingRight = FALSE
    /\ isDebugEnabled = FALSE
    /\ spaceWasDown \in BOOLEAN
    /\ jumpHoldTime \in (IF spaceWasDown THEN {0, TICKS \div 2} ELSE {0})
    /\ debugPresses = 0
    /\ frame = 0
    /\ BoxIdle /\ QueryIdle /\ ScreenIdle /\ TraceIdle

\* A frame in which no key is down.
RestFrame ==
    /\ frame < MaxRestFrames
    /\ \E frameTime \in RestTimes :
          /\ FrameWith(frameTime, FALSE, FALSE, FALSE, "none")
          /\ upArg' = [player |-> [position |-> position, velocity |-> velocity,
                                   jumpHoldTime |-> jumpHoldTime,
                                   isOnGround |-> isOnGround,
                                   isFacingRight |-> isFacingRight],
                       delta |-> Clamp(frameTime, 1, TICKS \div 10),
                       keys |-> [right |-> FALSE, left |-> FALSE,
                                 space |-> FALSE,
                                 spaceReleased |-> spaceWasDown]]
    /\ UNCHANGED <<boxVars, queryVars, screenVars, scanIndex>>

NextRest == RestFrame

SpecRest == InitRest /\ [][NextRest]_vars

-----------------------------------------------------------------------------
(* C1: tilemapGetTile answers every query, with the solid tile TILE_FULL   *)
(* whenever x is outside [0, TILEMAP_SIZE_X), whatever y is, and with the  *)
(* non-solid tile TILE_EMPTY whenever x is inside and y is outside         *)
(* [0, TILEMAP_SIZE_Y).                                                    *)
C1_OutOfBoundsPolicy ==
    qTile # -1 =>
        /\ qTile \in 0..255
        /\ (qx < 0 \/ qx >= TILEMAP_SIZE_X) => (qTile = TILE_FULL /\ qFull)
        /\ (qx >= 0 /\ qx < TILEMAP_SIZE_X /\ (qy < 0 \/ qy >= TILEMAP_SIZE_Y))
              => (qTile = TILE_EMPTY /\ ~qFull)

\* A query outside the grid on both axes has been answered.
C1_Witness ==
    qTile # -1 /\ qx = -1 /\ qy = TILEMAP_SIZE_Y

-----------------------------------------------------------------------------
(* C3: when every solid tile is separated from the box on some axis        *)
(* (|center - tileCenter| > halfExtent + 0.5, center in local space),      *)
(* isBoxCollidingWithTilemap returns false.                                *)
C3_SeparatedNeverCollides ==
    (/\ calls = 1
     /\ \A t \in TilesNear(Local(box.center)) :
           Solid(tilemap, t[1], t[2]) =>
               \/ SurfDist(Local(box.center), size, t[1], t[2])[1] > 0
               \/ SurfDist(Local(box.center), size, t[1], t[2])[2] > 0)
    => colliding = FALSE

\* A probe beside the right edge of the grid, level with the out-of-bounds
\* tiles past the edge and short of touching them.
C3_Witness ==
    /\ calls = 1
    /\ colliding = FALSE
    /\ \A t \in TilesNear(Local(box.center)) :
           Solid(tilemap, t[1], t[2]) =>
               \/ SurfDist(Local(box.center), size, t[1], t[2])[1] > 0
               \/ SurfDist(Local(box.center), size, t[1], t[2])[2] > 0
    /\ \E t \in TilesNear(Local(box.center)) :
           /\ t[1] = TILEMAP_SIZE_X
           /\ Solid(tilemap, t[1], t[2])
           /\ SurfDist(Local(box.center), size, t[1], t[2])[1] > 0
           /\ SurfDist(Local(box.center), size, t[1], t[2])[1] <= BoxStep
           /\ SurfDist(Local(box.center), size, t[1], t[2])[2] < 0

-----------------------------------------------------------------------------
(* C4: isBoxCollidingWithTilemap returns true whenever some solid tile has *)
(* surfDist <= 0 on both axes, touching included, on whichever side of the *)
(* box the tile lies.                                                      *)
C4_EveryOverlapDetected ==
    (/\ calls = 1
     /\ \E t \in TilesNear(Local(box.center)) :
           /\ Solid(tilemap, t[1], t[2])
           /\ Overlaps(Local(box.center), size, t[1], t[2]))
    => colliding = TRUE

-----------------------------------------------------------------------------
(* C5, as claimed: a box with velocity.y > 0 that overlaps a solid tile    *)
(* whose upper neighbour is non-solid leaves the resolver with             *)
(* velocity.y = 0 and its local center.y on that tile's top surface.       *)
C5_LandingClaimed ==
    calls >= 1 =>
        \A t \in TilesNear(Local(boxArg.center)) :
            (/\ boxArg.velocity[2] > 0
             /\ Solid(tilemap, t[1], t[2])
             /\ Overlaps(Local(boxArg.center), size, t[1], t[2])
             /\ ~Solid(tilemap, t[1], t[2] - 1))
            => /\ box.velocity[2] = 0
               /\ Local(box.center)[2] = BoxPos(t[1], t[2])[2] - SizeSum(size)[2]

\* The case the resolver does clamp: the tile is one of the scanned ones, the
\* center is not below the tile's center, and Y is the clip axis for the tile.
LandsOn(t) ==
    /\ boxArg.velocity[2] > 0
    /\ Solid(tilemap, t[1], t[2])
    /\ Overlaps(Local(boxArg.center), size, t[1], t[2])
    /\ ~Solid(tilemap, t[1], t[2] - 1)
    /\ Scanned(Local(boxArg.center), size, t[1], t[2])
    /\ Local(boxArg.center)[2] <= BoxPos(t[1], t[2])[2]
    /\ \/ Solid(tilemap,
                t[1] + (IF boxArg.center[1] > BoxPos(t[1], t[2])[1] THEN 1 ELSE -1),
                t[2])
       \/ SurfDist(Local(boxArg.center), size, t[1], t[2])[2]
              >= SurfDist(Local(boxArg.center), size, t[1], t[2])[1]

(* C5, amended: the player's box with velocity.y > 0 that overlaps a       *)
(* scanned solid tile whose upper neighbour is non-solid, with its center  *)
(* not below the tile's center and Y the clip axis for that tile, leaves   *)
(* the resolver with velocity.y = 0 and its local center.y on the tile's   *)
(* top surface.                                                            *)
C5_LandingClamped ==
    (calls >= 1 /\ size = PLAYER_SIZE) =>
        \A t \in TilesNear(Local(boxArg.center)) :
            LandsOn(t) =>
                /\ box.velocity[2] = 0
                /\ Local(box.center)[2] = BoxPos(t[1], t[2])[2] - SizeSum(size)[2]

\* A falling box that was pushed up out of a tile it had sunk into.
C5_Witness ==
    /\ calls = 1
    /\ size = PLAYER_SIZE
    /\ \E t \in TilesNear(Local(boxArg.center)) :
          /\ LandsOn(t)
          /\ SurfDist(Local(boxArg.center), size, t[1], t[2])[2] < 0
          /\ box.center[2] < boxArg.center[2]
          /\ box.velocity[2] = 0

-----------------------------------------------------------------------------
\* The landing scenario: half-extent (0.3, 0.4), local center (2.0, 11.6),
\* tile (2, 11) solid and tile (2, 10) non-solid, one call made.
Scenario ==
    /\ calls = 1
    /\ size = PLAYER_SIZE
    /\ Local(boxArg.center) = <<2 * ONE, 11 * ONE + 600>>
    /\ Solid(tilemap, 2, 11)
    /\ ~Solid(tilemap, 2, 10)

(* C6, as claimed: the scenario ends with center.y = 11.5 - 0.9 = 10.6 and *)
(* velocity.y <= 0.                                                        *)
C6_ScenarioClaimed ==
    Scenario => (Local(box.center)[2] = 10 * ONE + 600 /\ box.velocity[2] <= 0)

(* C6, amended: the center of the scenario lies below the tile's center,   *)
(* so the box is never moved up to 10.6.  When tile (1, 11) is solid the   *)
(* scenario ends with center.y = 11.5 + 0.9 = 12.4 and velocity.y >= 0;    *)
(* when it is not, X is the clip axis and the scenario ends with center =  *)
(* (2.5 - 0.8, 11.6) = (1.7, 11.6) and velocity.y unchanged.               *)
C6_ScenarioResolved ==
    Scenario =>
        IF Solid(tilemap, 1, 11)
        THEN /\ Local(box.center) = <<2 * ONE, 12 * ONE + 400>>
             /\ box.velocity[2] = Max(boxArg.velocity[2], 0)
        ELSE /\ Local(box.center) = <<ONE + 700, 11 * ONE + 600>>
             /\ box.velocity[2] = boxArg.velocity[2]

\* The scenario with the floor tile alone, falling.
C6_Witness ==
    /\ Scenario
    /\ ~Solid(tilemap, 1, 11)
    /\ boxArg.velocity[2] > 0
    /\ Local(box.center)[1] = ONE + 700

-----------------------------------------------------------------------------
\* No overlapping solid tile is embedded: each has an open edge facing the box.
NoneEmbedded(center) ==
    \A t \in TilesNear(center) :
        (Solid(tilemap, t[1], t[2]) /\ Overlaps(center, size, t[1], t[2]))
        => \/ IsXEmpty(tilemap, center, t[1], t[2])
           \/ IsYEmpty(tilemap, center, t[1], t[2])

(* C7: when no overlapping tile is embedded, a second call of the resolver *)
(* on the center and velocity the first call produced changes neither.     *)
C7_ResolveIdempotent ==
    (calls = 2 /\ NoneEmbedded(Local(boxFirst.center))) => box = boxArg

-----------------------------------------------------------------------------
(* C8: when the resolver returns, no solid tile is still overlapped with   *)
(* surfDist < 0 on both axes while its neighbours on both sides along its  *)
(* clip axis are non-solid.                                                *)
C8_NoSeparableOverlapLeft ==
    calls >= 1 =>
        ~\E t \in TilesNear(Local(box.center)) :
            /\ Solid(tilemap, t[1], t[2])
            /\ OverlapsStrictly(Local(box.center), size, t[1], t[2])
            /\ \/ IsXEmpty(tilemap, Local(box.center), t[1], t[2])
               \/ IsYEmpty(tilemap, Local(box.center), t[1], t[2])
            /\ IF IsClipAxisX(tilemap, Local(box.center), size, t[1], t[2])
               THEN ~Solid(tilemap, t[1] - 1, t[2]) /\ ~Solid(tilemap, t[1] + 1, t[2])
               ELSE ~Solid(tilemap, t[1], t[2] - 1) /\ ~Solid(tilemap, t[1], t[2] + 1)

-----------------------------------------------------------------------------
(* C9: the index that reads screenTilemaps is always within                *)
(* [0, screenCount - 1], and it is 0, the sentinel screen with no solid    *)
(* tile, whenever screenHeightIndex is outside [-1, screenCount - 3].      *)
C9_ScreenIndexInRange ==
    /\ screen.active \in 0..(NumScreens - 1)
    /\ screen.heightIndex \notin (-1)..(NumScreens - 3) =>
          /\ screen.active = 0
          /\ \A x \in 0..(TILEMAP_SIZE_X - 1), y \in 0..(TILEMAP_SIZE_Y - 1) :
                ~tilemapIsTileFull(ScreenTilemap(screen.active), x, y)

\* The player is one screen below the starting screen, where screenIndex
\* passes the range test with the value screenCount.
C9_Witness ==
    screen.heightIndex = -2 /\ screen.screenIndex = NumScreens /\ moved = 1

-----------------------------------------------------------------------------
(* C10: rising by exactly one screen height H raises getScreenHeightIndex  *)
(* by one and lowers the screen offset by H, so the local coordinate is    *)
(* unchanged; between authored screens the active index changes by one;    *)
(* and every height lies within the screen selected for it.                *)
C10_ScreenContinuity ==
    /\ (screen.height - screen.offsetY) \in 1..(TILEMAP_SIZE_Y * ONE)
    /\ moved = -1 =>
          /\ screen.height = prevScreen.height - TILEMAP_SIZE_Y * ONE
          /\ screen.heightIndex = prevScreen.heightIndex + 1
          /\ screen.offsetY = prevScreen.offsetY - TILEMAP_SIZE_Y * ONE
          /\ screen.height - screen.offsetY = prevScreen.height - prevScreen.offsetY
          /\ ({screen.heightIndex, prevScreen.heightIndex} \subseteq (-1)..(NumScreens - 3))
                => Abs(screen.active - prevScreen.active) = 1

\* A rise from the starting screen that began exactly on a screen boundary.
C10_Witness ==
    /\ moved = -1
    /\ prevScreen.height = TILEMAP_SIZE_Y * ONE
    /\ prevScreen.heightIndex = -1
    /\ screen.active = prevScreen.active - 1

-----------------------------------------------------------------------------
(* C2: at the end of every frame the player's box lies within the          *)
(* horizontal extent of the grid:                                          *)
(* PLAYER_SIZE.x <= position.x <= TILEMAP_SIZE_X - PLAYER_SIZE.x.          *)
C2_PlayerStaysInside ==
    /\ position[1] >= PLAYER_SIZE[1]
    /\ position[1] <= TILEMAP_SIZE_X * ONE - PLAYER_SIZE[1]

-----------------------------------------------------------------------------
(* C11, as claimed: the starting screen is screenTilemaps[1], and a rise   *)
(* by one screen height between authored screens raises the array index of *)
(* the active screen by one.                                               *)
C11_BottomToTopClaimed ==
    /\ screen.heightIndex = -1 => screen.active = 1
    /\ (/\ moved = -1
        /\ {screen.heightIndex, prevScreen.heightIndex}
               \subseteq (-1)..(NumScreens - 3))
       => screen.active = prevScreen.active + 1

(* C11, amended: the starting screen is the last element of screenTilemaps *)
(* (index screenCount - 1), a rise by one screen height between authored   *)
(* screens lowers the array index of the active screen by one, and the     *)
(* topmost authored screen is screenTilemaps[1].                           *)
C11_TopToBottom ==
    /\ screen.heightIndex = -1 => screen.active = NumScreens - 1
    /\ screen.heightIndex = NumScreens - 3 => screen.active = 1
    /\ (/\ moved = -1
        /\ {screen.heightIndex, prevScreen.heightIndex}
               \subseteq (-1)..(NumScreens - 3))
       => screen.active = prevScreen.active - 1

\* The player has risen from the starting screen to the screen above it.
C11_Witness ==
    /\ moved = -1
    /\ prevScreen.heightIndex = -1
    /\ prevScreen.active = NumScreens - 1
    /\ screen.active = NumScreens - 2

-----------------------------------------------------------------------------
(* C12: tilemapIsTileFull is false exactly when tilemapGetTile is          *)
(* TILE_EMPTY or TILE_ZERO and true for every other stored byte; every     *)
(* cell of screen 0, which the initialiser leaves unfilled, is TILE_ZERO   *)
(* and non-solid.                                                          *)
C12_TwoSolidityClasses ==
    qTile # -1 =>
        /\ qFull = (qTile \notin {TILE_EMPTY, TILE_ZERO})
        /\ (/\ tilemap = ScreenTilemap(0)
            /\ qx \in 0..(TILEMAP_SIZE_X - 1)
            /\ qy \in 0..(TILEMAP_SIZE_Y - 1))
           => (qTile = TILE_ZERO /\ ~qFull)

\* A stored byte that is none of the three of enum Tile has been reported full.
C12_Witness ==
    /\ qTile \notin {-1, TILE_EMPTY, TILE_ZERO, TILE_FULL}
    /\ qFull

-----------------------------------------------------------------------------
(* Vocabulary of the claims about one pass of the resolver's loop: the     *)
(* tile (qx, qy) has just been visited, boxArg is the box before the pass  *)
(* and box the box after it.                                               *)

TileCenter == BoxPos(qx, qy)

\* surfDist of the visited tile for the box before the pass.
SurfBefore == SurfDist(Local(boxArg.center), size, qx, qy)

\* The visited tile is solid and the box overlaps it, touching counted.
Hit ==
    /\ scanIndex >= 1
    /\ Solid(tilemap, qx, qy)
    /\ SurfBefore[1] <= 0 /\ SurfBefore[2] <= 0

\* On which side of the tile's center the box's center lies, per axis.
SideX == IF Local(boxArg.center)[1] > TileCenter[1] THEN 1 ELSE -1

SideY == IF Local(boxArg.center)[2] > TileCenter[2] THEN 1 ELSE -1

\* The axis has an open edge: the tile's neighbour on the box's side is
\* non-solid.
OpenX == ~Solid(tilemap, qx + SideX, qy)

OpenY == ~Solid(tilemap, qx, qy + SideY)

\* The pass moved the center to the tile's surface on one axis, on the
\* box's side, and left the center and the velocity of the other axis alone.
ClippedOnX ==
    /\ Local(box.center) = <<TileCenter[1] + SideX * SizeSum(size)[1],
                             Local(boxArg.center)[2]>>
    /\ box.velocity[2] = boxArg.velocity[2]

ClippedOnY ==
    /\ Local(box.center) = <<Local(boxArg.center)[1],
                             TileCenter[2] + SideY * SizeSum(size)[2]>>
    /\ box.velocity[1] = boxArg.velocity[1]

-----------------------------------------------------------------------------
(* C14: for an overlapping solid tile, when exactly one axis has an open   *)
(* edge the box is clipped on that axis, however deep its penetration, and *)
(* when both have one it is clipped on the axis with the larger surfDist.  *)
C14_ClipAxisSelection ==
    Hit =>
        /\ (OpenX /\ ~OpenY) => ClippedOnX
        /\ (OpenY /\ ~OpenX) => ClippedOnY
        /\ (OpenX /\ OpenY /\ SurfBefore[1] > SurfBefore[2]) => ClippedOnX
        /\ (OpenX /\ OpenY /\ SurfBefore[2] > SurfBefore[1]) => ClippedOnY

\* A tile open on X alone was clipped on X although it was penetrated
\* deeper on X than on Y.
C14_Witness ==
    /\ Hit /\ OpenX /\ ~OpenY
    /\ SurfBefore[1] < SurfBefore[2]
    /\ SurfBefore[2] < 0
    /\ ClippedOnX
    /\ box.center # boxArg.center

-----------------------------------------------------------------------------
\* Every solid tile of the scan that the box it was given overlaps is
\* embedded: its neighbours on the box's side are solid on both axes.
AllEmbedded ==
    \A k \in 1..ScanCount(ScanRange) :
        LET t == ScanTile(ScanRange, k)
            c == Local(boxFirst.center)
        IN  (Solid(tilemap, t[1], t[2]) /\ Overlaps(c, size, t[1], t[2]))
            => /\ ~IsXEmpty(tilemap, c, t[1], t[2])
               /\ ~IsYEmpty(tilemap, c, t[1], t[2])

\* The box lies wholly beyond the left or the right edge of the grid.
BeyondEdge ==
    \/ Local(boxFirst.center)[1] + size[1] <= 0
    \/ Local(boxFirst.center)[1] - size[1] >= TILEMAP_SIZE_X * ONE

-----------------------------------------------------------------------------
(* C16: a pass that clips moves the center on the clip axis alone, to      *)
(* tileCenter + sizeSum when the center is on the positive side of the     *)
(* tile's center and to tileCenter - sizeSum otherwise, so that surfDist   *)
(* on that axis becomes 0 and the center is no nearer the tile's center    *)
(* than before; the center and the velocity on the other axis are kept.    *)
C16_ClipOnOneAxis ==
    (Hit /\ (OpenX \/ OpenY)) =>
        \/ /\ ClippedOnX
           /\ SurfDist(Local(box.center), size, qx, qy)[1] = 0
           /\ Abs(Local(box.center)[1] - TileCenter[1])
                  >= Abs(Local(boxArg.center)[1] - TileCenter[1])
        \/ /\ ClippedOnY
           /\ SurfDist(Local(box.center), size, qx, qy)[2] = 0
           /\ Abs(Local(box.center)[2] - TileCenter[2])
                  >= Abs(Local(boxArg.center)[2] - TileCenter[2])

\* A box was pushed out of a tile to its left, its height and its
\* vertical velocity kept.
C16_Witness ==
    /\ Hit /\ OpenX /\ SideX = 1
    /\ SurfBefore[1] < 0 /\ SurfBefore[2] < 0
    /\ ClippedOnX
    /\ Local(box.center)[1] > Local(boxArg.center)[1]
    /\ boxArg.velocity[2] # 0

-----------------------------------------------------------------------------
\* The clip axis of the visited tile, by the rule of C14.
AxisIsX == OpenX /\ (~OpenY \/ SurfBefore[1] > SurfBefore[2])

(* C17: a horizontal clip replaces a velocity.x that points into the       *)
(* surface by -velocity.x * BOUNCE_FACTOR_X and keeps any other; a         *)
(* vertical clip makes a velocity.y that points into the surface 0 and     *)
(* keeps any other; no pass and no call increases |velocity.x| or          *)
(* |velocity.y|.                                                           *)
C17_VelocityResponse ==
    /\ (Hit /\ (OpenX \/ OpenY) /\ AxisIsX) =>
           box.velocity[1] =
               IF boxArg.velocity[1] * SideX < 0
               THEN RoundDiv(-boxArg.velocity[1] * BOUNCE_FACTOR_X, ONE)
               ELSE boxArg.velocity[1]
    /\ (Hit /\ (OpenX \/ OpenY) /\ ~AxisIsX) =>
           box.velocity[2] =
               IF boxArg.velocity[2] * SideY < 0 THEN 0 ELSE boxArg.velocity[2]
    /\ scanIndex >= 1 =>
           /\ Abs(box.velocity[1]) <= Abs(boxArg.velocity[1])
           /\ Abs(box.velocity[2]) <= Abs(boxArg.velocity[2])
    /\ scanIndex = ScanCount(ScanRange) =>
           LET out == resolveBoxCollisionWithTilemap(tilemap, tilemapHeight,
                          boxFirst.center, boxFirst.velocity, size)
           IN  /\ out = box
               /\ Abs(out.velocity[1]) <= Abs(boxFirst.velocity[1])
               /\ Abs(out.velocity[2]) <= Abs(boxFirst.velocity[2])

\* A box moving left into a wall on its left has bounced off it at 0.45
\* of its speed.
C17_Witness ==
    /\ Hit /\ AxisIsX /\ SideX = 1
    /\ boxArg.velocity[1] < 0
    /\ box.velocity[1] > 0
    /\ box.velocity[1] = RoundDiv(-boxArg.velocity[1] * BOUNCE_FACTOR_X, ONE)

-----------------------------------------------------------------------------
(* C13: a grounded player whose jump key is just released with             *)
(* jumpHoldTime = 0 and neither left nor right held leaves updatePlayer    *)
(* with velocity (0, -1) * (1.1 / 2) * PLAYER_JUMP_STRENGTH = (0, -8.25),  *)
(* whatever its velocity was.                                              *)
C13_ZeroChargeJump ==
    (/\ calls = 1
     /\ isOnGround
     /\ upArg.keys.spaceReleased
     /\ upArg.player.jumpHoldTime = 0
     /\ ~upArg.keys.right /\ ~upArg.keys.left)
    => velocity = <<0, -((11 * ONE) \div 20) * PLAYER_JUMP_STRENGTH>>

\* A zero-charge jump by a player that came in faster than the speed clamp.
C13_Witness ==
    /\ calls = 1
    /\ isOnGround
    /\ upArg.keys.spaceReleased
    /\ upArg.player.jumpHoldTime = 0
    /\ ~upArg.keys.right /\ ~upArg.keys.left
    /\ upArg.player.velocity = <<20 * ONE, -20 * ONE>>
    /\ velocity[2] < 0

-----------------------------------------------------------------------------
(* C20: after updatePlayer, isOnGround is what isBoxCollidingWithTilemap   *)
(* returns for the probe of half-extent (0.1, 0.05) centered at            *)
(* (position.x, position.y + PLAYER_SIZE.y), position taken before the     *)
(* integration, whatever isOnGround, the velocity and the keys were.       *)
C20_GroundedByProbeAlone ==
    calls = 1 =>
        isOnGround =
            isBoxCollidingWithTilemap(tilemap, tilemapHeight,
                <<upArg.player.position[1],
                  upArg.player.position[2] + PLAYER_SIZE[2]>>,
                <<ONE \div 10, ONE \div 20>>)

\* A player that was grounded and rising with the jump key down is
\* airborne after the call, and one that was airborne a twentieth of a
\* tile above the floor would be grounded.
C20_Witness ==
    /\ calls = 1
    /\ upArg.player.isOnGround /\ ~isOnGround
    /\ upArg.keys.space
    /\ upArg.player.velocity = <<5 * ONE, -3 * ONE>>
    /\ upArg.player.position = <<8 * ONE, 10 * ONE + 500>>

-----------------------------------------------------------------------------
(* C18: in every frame updatePlayer completes before the resolver runs,    *)
(* both on the same Player: the ground probe is taken at the position the  *)
(* frame starts with, the integration moves that position by the clamped   *)
(* velocity, and the resolver starts from the moved position and that      *)
(* velocity and leaves the frame's position and velocity.  With no debug   *)
(* move by a screen in between, the position a frame starts with, and so   *)
(* the one its probe uses, is the one the previous frame's resolver left.  *)
C18_UpdateThenResolve ==
    last.ran =>
        \E resolved \in {resolveBoxCollisionWithTilemap(
                            ScreenTilemap(last.map), last.offset,
                            last.movedTo, last.movedWith, PLAYER_SIZE)} :
            /\ isOnGround =
                  GroundProbe(ScreenTilemap(last.map), last.offset, last.startAt)
            /\ \E delta \in FrameDeltas :
                  last.movedTo =
                      <<last.startAt[1] + ScaleByDelta(last.movedWith, delta)[1],
                        last.startAt[2] + ScaleByDelta(last.movedWith, delta)[2]>>
            /\ last.resolvedTo = resolved.center
            /\ velocity = resolved.velocity
            /\ ~last.teleported => position = last.resolvedTo
            /\ (frame > 1 /\ ~last.cameByTeleport) => last.startAt = last.cameFrom

\* A second frame with no debug move before it: it started where the first
\* frame's resolver left the player, found ground there, moved the player
\* and had the move corrected by the resolver.
C18_Witness ==
    /\ last.ran /\ frame > 1
    /\ ~last.cameByTeleport /\ ~last.teleported
    /\ last.startAt = last.cameFrom
    /\ isOnGround
    /\ last.movedTo # last.startAt
    /\ last.resolvedTo # last.movedTo
    /\ position = last.resolvedTo

-----------------------------------------------------------------------------
(* C19: in every frame the tilemap and the vertical offset passed to the   *)
(* ground probe and to the resolver are those of the screen of the         *)
(* player's vertical position at the moment of the call: the position the  *)
(* frame starts with for the probe, the integrated position for the        *)
(* resolver.                                                               *)
C19_ScreenOfCurrentPosition ==
    last.ran =>
        /\ last.map = ActiveScreenIndex(last.startAt[2])
        /\ last.offset = ScreenOffsetY(last.startAt[2])
        /\ last.map = ActiveScreenIndex(last.movedTo[2])
        /\ last.offset = ScreenOffsetY(last.movedTo[2])

-----------------------------------------------------------------------------
(* C21: after updatePlayer, jumpHoldTime is its previous value plus delta  *)
(* when the probe found ground and the jump key is held, and 0 otherwise;  *)
(* so jumpHoldTime > 0 only with isOnGround, and no charge builds up in    *)
(* the air.                                                                *)
C21_ChargeOnlyOnGround ==
    calls = 1 =>
        /\ (isOnGround /\ upArg.keys.space)
              => jumpHoldTime = upArg.player.jumpHoldTime + upArg.delta
        /\ ~(isOnGround /\ upArg.keys.space) => jumpHoldTime = 0
        /\ jumpHoldTime > 0 => isOnGround

\* A player that was grounded and charged, now in the air with the jump key
\* still held, has lost its charge.
C21_Witness ==
    /\ calls = 1
    /\ upArg.keys.space
    /\ upArg.player.jumpHoldTime > 0
    /\ upArg.player.isOnGround
    /\ ~isOnGround
    /\ jumpHoldTime = 0

-----------------------------------------------------------------------------
(* C22: in every grounded call with the jump key just released, whatever   *)
(* left/right keys are held, the velocity updatePlayer leaves is           *)
(* normalize((bias, -1)) * jumpStrength * PLAYER_JUMP_STRENGTH with        *)
(* jumpStrength = clamp(jumpHoldTime * 2.6, 1.1, 2.0) / 2 and              *)
(* bias = (right - left) * (0.75 - 0.5 * jumpStrength): it points along    *)
(* (bias, -1) and its speed lies between 8.25 and 15 (to the grid's        *)
(* rounding).                                                              *)
C22_LaunchVelocity ==
    (calls = 1 /\ isOnGround /\ upArg.keys.spaceReleased) =>
        LET jumpStrength == JumpStrength(upArg.player.jumpHoldTime)
            bias == ((IF upArg.keys.right THEN 1 ELSE 0)
                        - (IF upArg.keys.left THEN 1 ELSE 0))
                    * ((3 * ONE) \div 4 - RoundDiv(jumpStrength, 2))
            speed == Vector2Length(velocity)
        IN  /\ velocity = ScaleNormalized(<<bias, -ONE>>,
                                          jumpStrength * PLAYER_JUMP_STRENGTH)
            /\ Abs(velocity[1] * (-ONE) - velocity[2] * bias) <= 2 * ONE
            /\ speed >= ((11 * ONE) \div 20) * PLAYER_JUMP_STRENGTH - 2
            /\ speed <= PLAYER_JUMP_STRENGTH * ONE

-----------------------------------------------------------------------------
(* C23: whatever the frame time within [0.0001, 0.1], in the frame after a *)
(* grounded jump-release launch the ground probe fails: the launch is      *)
(* followed by Airborne, and its horizontal velocity does not meet the     *)
(* grounded branch.                                                        *)
C23_LaunchLeavesGround ==
    (last.ran /\ last.cameByLaunch) => ~isOnGround

-----------------------------------------------------------------------------
(* C24, as claimed: the speed being clamped, the player's position at the  *)
(* end of a frame, after the resolver, is at most 25 * delta from where    *)
(* the frame started.                                                      *)
C24_FrameReachClaimed ==
    calls = 2 =>
        LET step == <<position[1] - upArg.player.position[1],
                      position[2] - upArg.player.position[2]>>
            reach == RoundDiv(MAX_SPEED * upArg.delta, TICKS) + 1
        IN  SquaredLength(step) <= reach * reach

(* C24: after updatePlayer, and after the resolver that follows it,        *)
(* velocity.x^2 + velocity.y^2 <= 25^2.  A velocity no longer than 25      *)
(* leaves the clamp unchanged; a longer one keeps its direction (to the    *)
(* grid's rounding) and leaves with length 25; the integration of          *)
(* updatePlayer moves the player at most 25 * delta.                       *)
C24_SpeedClamp ==
    /\ calls >= 1 => SquaredLength(velocity) <= MAX_SPEED * MAX_SPEED
    /\ calls = 1 =>
          LET before == VelocityBeforeClamp(upArg.player, isOnGround,
                                            upArg.delta, upArg.keys)
              step == <<position[1] - upArg.player.position[1],
                        position[2] - upArg.player.position[2]>>
              reach == RoundDiv(MAX_SPEED * upArg.delta, TICKS) + 1
          IN  /\ SquaredLength(before) <= MAX_SPEED * MAX_SPEED
                    => velocity = before
              /\ SquaredLength(before) > MAX_SPEED * MAX_SPEED
                    => /\ velocity[1] * before[1] >= 0
                       /\ velocity[2] * before[2] >= 0
                       /\ Abs(velocity[1] * before[2] - velocity[2] * before[1])
                              <= Abs(before[1]) + Abs(before[2])
                       /\ Vector2Length(velocity) >= MAX_SPEED - 2
              /\ SquaredLength(step) <= reach * reach

\* A player has left updatePlayer slower than it would have without the
\* clamp, with both components changed, and the resolver has run after it.
C24_Witness ==
    /\ calls = 2
    /\ SquaredLength(VelocityBeforeClamp(upArg.player, isOnGround,
                                         upArg.delta, upArg.keys))
          > MAX_SPEED * MAX_SPEED
    /\ boxArg.velocity[1] # 0 /\ boxArg.velocity[2] # 0
    /\ SquaredLength(boxArg.velocity) <= MAX_SPEED * MAX_SPEED
    /\ SquaredLength(velocity) <= SquaredLength(boxArg.velocity)

-----------------------------------------------------------------------------
(* C25: in a grounded call with the jump key neither held nor just         *)
(* released, velocity.x before the speed clamp is                          *)
(* PLAYER_SPEED * delta * (right - left), whatever velocity.x was, and     *)
(* isFacingRight is true when only right is held, false when left is held, *)
(* unchanged when neither is.                                              *)
C25_Walking ==
    (calls = 1 /\ isOnGround /\ ~upArg.keys.space /\ ~upArg.keys.spaceReleased)
    => LET walk == RoundDiv(PLAYER_SPEED * ONE * upArg.delta, TICKS)
                      * ((IF upArg.keys.right THEN 1 ELSE 0)
                            - (IF upArg.keys.left THEN 1 ELSE 0))
           before == <<walk, Fallen(upArg.player.velocity, upArg.delta)[2]>>
       IN  /\ VelocityBeforeClamp(upArg.player, isOnGround, upArg.delta,
                                  upArg.keys) = before
           /\ velocity = ClampSpeed(before)
           /\ (upArg.keys.right /\ ~upArg.keys.left) => isFacingRight
           /\ upArg.keys.left => ~isFacingRight
           /\ (~upArg.keys.right /\ ~upArg.keys.left)
                 => isFacingRight = upArg.player.isFacingRight

\* A player that moved left and faced left walks right at PLAYER_SPEED *
\* delta and faces right.
C25_Witness ==
    /\ calls = 1 /\ isOnGround
    /\ ~upArg.keys.space /\ ~upArg.keys.spaceReleased
    /\ upArg.keys.right /\ ~upArg.keys.left
    /\ upArg.player.velocity[1] < 0
    /\ ~upArg.player.isFacingRight
    /\ isFacingRight
    /\ velocity[1] = RoundDiv(PLAYER_SPEED * ONE * upArg.delta, TICKS)

-----------------------------------------------------------------------------
(* C26: in a call whose ground probe fails, updatePlayer changes the       *)
(* player by gravity on velocity.y, the speed clamp, the position          *)
(* integration and jumpHoldTime = 0 alone: the keys, a jump release        *)
(* included, change neither velocity nor isFacingRight.                    *)
C26_NoAirControl ==
    (calls = 1 /\ ~isOnGround)
    => /\ velocity = ClampSpeed(Fallen(upArg.player.velocity, upArg.delta))
       /\ position =
             <<upArg.player.position[1]
                   + ScaleByDelta(velocity, upArg.delta)[1],
               upArg.player.position[2]
                   + ScaleByDelta(velocity, upArg.delta)[2]>>
       /\ jumpHoldTime = 0
       /\ isFacingRight = upArg.player.isFacingRight

\* An airborne call with the jump key just released and right held: the
\* player, facing left and moving left, keeps both.
C26_Witness ==
    /\ calls = 1 /\ ~isOnGround
    /\ upArg.keys.spaceReleased /\ upArg.keys.right /\ ~upArg.keys.left
    /\ upArg.player.jumpHoldTime > 0
    /\ upArg.player.velocity[1] < 0 /\ velocity[1] = upArg.player.velocity[1]
    /\ ~upArg.player.isFacingRight /\ ~isFacingRight

-----------------------------------------------------------------------------
(* C27: in a grounded call with the jump key held, velocity.x leaves       *)
(* updatePlayer as 0 and isFacingRight is unchanged, whatever left/right   *)
(* keys are held.                                                          *)
C27_ChargingPins ==
    (calls = 1 /\ isOnGround /\ upArg.keys.space)
    => /\ velocity[1] = 0
       /\ isFacingRight = upArg.player.isFacingRight

\* A grounded player moving left and facing left holds jump and right: it
\* stops and keeps facing left.
C27_Witness ==
    /\ calls = 1 /\ isOnGround /\ upArg.keys.space
    /\ upArg.keys.right /\ ~upArg.keys.left
    /\ upArg.player.velocity[1] < 0
    /\ ~upArg.player.isFacingRight /\ ~isFacingRight
    /\ velocity[1] = 0

-----------------------------------------------------------------------------
(* C28, as claimed: a frame that starts with the player at rest (zero      *)
(* velocity, feet on solid tiles under the whole box, the box's tiles not  *)
(* solid) and with no key held ends with the same position, zero velocity  *)
(* and isOnGround true, whatever delta is.                                 *)
StartedAtRest ==
    /\ last.ran
    /\ upArg.player.position = last.startAt
    /\ upArg.player.velocity = <<0, 0>>
    /\ Resting(last.startAt)
    /\ ~upArg.keys.right /\ ~upArg.keys.left /\ ~upArg.keys.space

C28_RestingClaimed ==
    StartedAtRest =>
        position = last.startAt /\ velocity = <<0, 0>> /\ isOnGround

(* C28: a frame that starts with the player at rest, with no key held and  *)
(* the jump key not just released, ends with the same position, zero       *)
(* velocity and isOnGround true, whatever delta is.                        *)
C28_RestingIsFixedPoint ==
    (StartedAtRest /\ ~upArg.keys.spaceReleased) =>
        position = last.startAt /\ velocity = <<0, 0>> /\ isOnGround

\* A frame of 0.1 s has moved a resting player into the floor and the
\* resolver has put it back, and a second frame has done so again.
C28_Witness ==
    /\ StartedAtRest /\ ~upArg.keys.spaceReleased
    /\ frame = 2
    /\ upArg.delta = TICKS \div 10
    /\ last.movedTo[2] > last.startAt[2]
    /\ last.movedWith[2] > 0
    /\ position = last.startAt /\ velocity = <<0, 0>> /\ isOnGround

-----------------------------------------------------------------------------
(* C29: from the constructed player at (8, 6) on the starting screen, with *)
(* no key ever pressed and whatever the frame times within [0.0001, 0.1],  *)
(* the player comes to rest on the floor of the starting screen and never  *)
(* leaves that screen: at the end of every frame its position is on the    *)
(* starting screen and above the floor row.                                *)
C29_StaysOnStartingScreen ==
    /\ ActiveScreenIndex(position[2]) = NumScreens - 1
    /\ position[2] + PLAYER_SIZE[2] <= (TILEMAP_SIZE_Y - 1) * ONE

-----------------------------------------------------------------------------
(* C30: for every world height y the screen-local coordinate               *)
(* y - screenOffsetY lies in (0, TILEMAP_SIZE_Y]: a height that is a       *)
(* multiple of the screen height belongs to the upper screen, with local   *)
(* y = TILEMAP_SIZE_Y, never to the lower one with local y = 0.            *)
C30_LocalHeightRange ==
    /\ height - screen.offsetY > 0
    /\ height - screen.offsetY <= TILEMAP_SIZE_Y * ONE
    /\ height % (TILEMAP_SIZE_Y * ONE) = 0
          => height - screen.offsetY = TILEMAP_SIZE_Y * ONE

\* A move by one screen has arrived at a negative multiple of the screen
\* height, whose local coordinate is the full screen height.
C30_Witness ==
    /\ moved # 0
    /\ height < 0
    /\ height % (TILEMAP_SIZE_Y * ONE) = 0
    /\ height - screen.offsetY = TILEMAP_SIZE_Y * ONE
    /\ screen.heightIndex = -(height \div (TILEMAP_SIZE_Y * ONE))

=============================================================================
